---- MODULE Spec2Model ----
(***************************************************************************)
(* Model of src/main.py: the Monte Carlo estimator _monte_carlo and the    *)
(* chunked, process-pool based aggregator monte_carlo.                     *)
(*                                                                         *)
(* Numbers.  A random value of [0, 1) is modelled on a grid: the integer k *)
(* of 0..Grid-1 stands for k/Grid, so x^2 + y^2 <= 1 is                    *)
(* kx^2 + ky^2 <= Grid^2.  An estimate is the exact rational <<num, den>>  *)
(* in lowest terms (den > 0); <<0, 0>> stands for the float nan.  The      *)
(* rounding of 64-bit floats is not modelled.                              *)
(*                                                                         *)
(* Random source.  numpy's process-wide generator is a deterministic       *)
(* stream: its state is [seed, pos] and the value drawn at that state is   *)
(* Output(seed, pos).  A process created by fork starts with a copy of the *)
(* parent's generator state; a process created by spawn imports numpy      *)
(* afresh and seeds its generator from the operating system's entropy,     *)
(* which hands out a seed that no other process of the run has: worker w   *)
(* gets the seed of the parent plus w.                                     *)
(***************************************************************************)
EXTENDS Integers, Sequences, FiniteSets, Bags, TLC

\* ---- bounds of the model ------------------------------------------------
MaxN == 4          \* largest sample count n of a call
MaxLimit == 2      \* largest num_limit of a call
NegRange == 2      \* smallest n and num_limit of a call are -NegRange
NumWorkers == 2    \* worker processes of the pool (os.cpu_count())
NumSeeds == 2      \* seeds the generator of the caller's process may have
Grid == 10         \* resolution of the unit interval

VARIABLES
    entry,       \* the function the caller invoked: "monte_carlo" or "_monte_carlo"
    n,           \* argument n of the call
    num_limit,   \* argument num_limit of the call
    startMethod, \* how the platform creates worker processes: "fork" or "spawn"
    pc,          \* position of the caller: "start", "pool", "done"
    outcome,     \* "pending", "value" (the call returned) or "error" (it raised)
    result,      \* the returned estimate, <<num, den>>
    parentRng,   \* state of the generator of the caller's process
    poolCreated, \* a ProcessPoolExecutor was constructed
    n_range,     \* number of chunks to submit
    submitError, \* executor.submit raised
    broken,      \* the pool is broken (a worker process died)
    workers,     \* worker id -> [alive, rng, task]; task = 0 when idle
    futures,     \* the list futures, in submission order
    calls,       \* every invocation of _monte_carlo: [proc, n, rng, fut, ret]
    completed    \* indices of futures in the order they completed

vars == <<entry, n, num_limit, startMethod, pc, outcome, result, parentRng,
          poolCreated, n_range, submitError, broken, workers, futures, calls,
          completed>>

\* ---- arithmetic ---------------------------------------------------------
Abs(a) == IF a < 0 THEN -a ELSE a

RECURSIVE GCD(_, _)
GCD(a, b) == IF b = 0 THEN a ELSE GCD(b, a % b)

\* Python's floor division a // b for b # 0.
FloorDiv(a, b) ==
    LET q == Abs(a) \div Abs(b)
        exact == Abs(a) % Abs(b) = 0
    IN  IF (a >= 0) = (b > 0) \/ a = 0
        THEN q
        ELSE IF exact THEN -q ELSE -(q + 1)

NaN == <<0, 0>>

\* the rational a/b (b > 0) in lowest terms
Rat(a, b) == LET g == GCD(Abs(a), b) IN <<a \div g, b \div g>>

RatAdd(p, q) == Rat(p[1] * q[2] + q[1] * p[2], p[2] * q[2])

\* ---- the random source --------------------------------------------------
\* the value the generator seeded with seed yields at position pos
Output(seed, pos) == (2 * seed * pos * pos + 2 * pos + seed + 5) % Grid

Rand(rng, k) == [i \in 1..k |-> Output(rng.seed, rng.pos + i - 1)]

Advance(rng, k) == [seed |-> rng.seed, pos |-> rng.pos + k]

\* ---- _monte_carlo -------------------------------------------------------
InsideStrict(v) == v < Grid * Grid
Inside(v) == v <= Grid * Grid

\* _monte_carlo(k) run on generator state rng: [ok, val, rng]
MonteCarlo(rng, k) ==
    IF k < 0
    THEN [ok |-> FALSE, val |-> NaN, rng |-> rng]   \* rand(k): ValueError
    ELSE LET xs == Rand(rng, k)
             ys == Rand(Advance(rng, k), k)
             xy == [i \in 1..k |-> xs[i] * xs[i] + ys[i] * ys[i]]
             size == Cardinality({i \in 1..k : Inside(xy[i])})
             rng2 == Advance(rng, 2 * k)
         IN  IF k = 0
             THEN [ok |-> FALSE, val |-> NaN, rng |-> rng2]  \* 0 / 0: ZeroDivisionError
             ELSE [ok |-> TRUE, val |-> Rat(size * 4, k), rng |-> rng2]

\* ---- monte_carlo --------------------------------------------------------
DirectPathStrict(k, lim) == k < lim
DirectPath(k, lim) == k <= lim

\* n0 = n if n >= num_limit else round(n, -math.log10(num_limit)); the else
\* branch passes a float as ndigits, which raises TypeError ("err").
N0(k, lim) == IF k >= lim THEN <<"ok", k>> ELSE <<"err", 0>>

ChunkCountCeil(k0, lim) == -FloorDiv(-k0, lim)
ChunkCount(k0, lim) == FloorDiv(k0, lim)

ChunkSizeWhole(k, lim) == k
ChunkSize(k, lim) == lim

RECURSIVE SumSeq(_)
SumSeq(s) == IF s = <<>> THEN <<0, 1>> ELSE RatAdd(s[1], SumSeq(Tail(s)))

RECURSIVE RunningAverage(_)
RunningAverage(s) ==
    IF s = <<>> THEN NaN
    ELSE IF Len(s) = 1 THEN s[1]
    ELSE LET r == RunningAverage(SubSeq(s, 1, Len(s) - 1))
             t == RatAdd(r, s[Len(s)])
         IN  Rat(t[1], t[2] * 2)

\* np.average of a list of estimates
Average(s) ==
    IF s = <<>> THEN NaN
    ELSE LET t == SumSeq(s) IN Rat(t[1], t[2] * Len(s))

IsDone(f) == f.state \in {"finished", "failed"}

SomeCompleted == futures = <<>> \/ \E i \in 1..Len(futures) : IsDone(futures[i])
\* executor.shutdown(wait=True) and future.result() return
AllCompleted == \A i \in 1..Len(futures) : IsDone(futures[i])

NeverRaises(fs) == FALSE
\* some future.result() raises
AnyRaises(fs) == \E i \in 1..Len(fs) : fs[i].state = "failed"

ResultsTail(fs) ==
    LET done == SelectSeq(fs, LAMBDA f : f.state = "finished")
    IN  [i \in 1..(Len(done) - 1) |-> done[i + 1].val]
\* [future.result() for future in futures]
Results(fs) ==
    LET done == SelectSeq(fs, LAMBDA f : f.state = "finished")
    IN  [i \in 1..Len(done) |-> done[i].val]

\* ---- initial state ------------------------------------------------------
Idle == [alive |-> FALSE, rng |-> [seed |-> 0, pos |-> 0], task |-> 0]

Init ==
    /\ entry \in {"monte_carlo", "_monte_carlo"}
    /\ n \in (-NegRange)..MaxN
    /\ num_limit \in (-NegRange)..MaxLimit
    /\ entry = "_monte_carlo" => num_limit = 1
    /\ startMethod \in {"fork", "spawn"}
    /\ pc = "start"
    /\ outcome = "pending"
    /\ result = NaN
    /\ parentRng \in [seed : 0..(NumSeeds - 1), pos : {0}]
    /\ poolCreated = FALSE
    /\ n_range = 0
    /\ submitError = FALSE
    /\ broken = FALSE
    /\ workers = [w \in 1..NumWorkers |-> Idle]
    /\ futures = <<>>
    /\ calls = <<>>
    /\ completed = <<>>

\* ---- the caller ---------------------------------------------------------
\* how an invocation of _monte_carlo ended
Ret(r) == [st |-> IF r.ok THEN "returned" ELSE "raised", val |-> r.val]

Running == [st |-> "running", val |-> NaN]

\* the invocation of _monte_carlo that runs future i
CallOf(i) == CHOOSE k \in 1..Len(calls) : calls[k].fut = i

\* _monte_carlo(n) run in the caller's process
InCaller ==
    LET r == MonteCarlo(parentRng, n)
    IN  /\ calls' = Append(calls, [proc |-> 0, n |-> n, rng |-> parentRng, fut |-> 0,
                                   ret |-> Ret(r)])
        /\ parentRng' = r.rng
        /\ outcome' = IF r.ok THEN "value" ELSE "error"
        /\ result' = r.val
        /\ pc' = "done"

\* a direct call of _monte_carlo(n)
EstimateCall ==
    /\ pc = "start"
    /\ entry = "_monte_carlo"
    /\ InCaller
    /\ UNCHANGED <<entry, n, num_limit, startMethod, poolCreated, n_range,
                   submitError, broken, workers, futures, completed>>

\* monte_carlo, n <= num_limit: return _monte_carlo(n)
RunDirect ==
    /\ pc = "start"
    /\ entry = "monte_carlo"
    /\ DirectPath(n, num_limit)
    /\ InCaller
    /\ UNCHANGED <<entry, n, num_limit, startMethod, poolCreated, n_range,
                   submitError, broken, workers, futures, completed>>

\* monte_carlo, n > num_limit: n0, n_range and the executor
OpenPool ==
    /\ pc = "start"
    /\ entry = "monte_carlo"
    /\ ~DirectPath(n, num_limit)
    /\ LET n0 == N0(n, num_limit)
       IN  IF n0[1] = "err" \/ num_limit = 0
           THEN \* TypeError, or ZeroDivisionError of n0 // num_limit
                /\ pc' = "done"
                /\ outcome' = "error"
                /\ UNCHANGED <<n_range, poolCreated>>
           ELSE /\ n_range' = ChunkCount(n0[2], num_limit)
                /\ poolCreated' = TRUE
                /\ pc' = "pool"
                /\ UNCHANGED outcome
    /\ UNCHANGED <<entry, n, num_limit, startMethod, result, parentRng,
                   submitError, broken, workers, futures, calls, completed>>

\* the generator of worker process w when it is launched
WorkerRng(w) ==
    IF startMethod = "fork"
    THEN parentRng
    ELSE [seed |-> parentRng.seed + w, pos |-> 0]

\* executor.submit(_monte_carlo, num_limit)
Submit ==
    /\ pc = "pool"
    /\ ~submitError
    /\ ~broken
    /\ Len(futures) < n_range
    /\ futures' = Append(futures, [state |-> "pending",
                                   n |-> ChunkSize(n, num_limit),
                                   val |-> NaN, runs |-> 0])
    /\ IF futures = <<>>
       THEN \* the first submit launches the worker processes
            workers' = [w \in 1..NumWorkers |->
                          [alive |-> TRUE, rng |-> WorkerRng(w), task |-> 0]]
       ELSE UNCHANGED workers
    /\ UNCHANGED <<entry, n, num_limit, startMethod, pc, outcome, result,
                   parentRng, poolCreated, n_range, submitError, broken,
                   calls, completed>>

\* executor.submit raises: no process can be launched, or the pool is broken
SubmitFail ==
    /\ pc = "pool"
    /\ ~submitError
    /\ Len(futures) < n_range
    /\ submitError' = TRUE
    /\ UNCHANGED <<entry, n, num_limit, startMethod, pc, outcome, result,
                   parentRng, poolCreated, n_range, broken, workers, futures,
                   calls, completed>>

\* ---- the worker processes -----------------------------------------------
\* the next work item of the call queue
NextPending ==
    LET P == {i \in 1..Len(futures) : futures[i].state = "pending"}
    IN  IF P = {} THEN 0 ELSE CHOOSE i \in P : \A j \in P : i <= j

\* worker w takes the next work item and enters _monte_carlo
StartTask(w) ==
    /\ workers[w].alive
    /\ workers[w].task = 0
    /\ NextPending # 0
    /\ LET i == NextPending
       IN  /\ futures' = [futures EXCEPT ![i].state = "running", ![i].runs = @ + 1]
           /\ workers' = [workers EXCEPT ![w].task = i]
           /\ calls' = Append(calls, [proc |-> w, n |-> futures[i].n,
                                      rng |-> workers[w].rng, fut |-> i,
                                      ret |-> Running])
    /\ UNCHANGED <<entry, n, num_limit, startMethod, pc, outcome, result,
                   parentRng, poolCreated, n_range, submitError, broken,
                   completed>>

\* worker w returns from _monte_carlo
FinishTask(w) ==
    /\ workers[w].alive
    /\ workers[w].task # 0
    /\ LET i == workers[w].task
           r == MonteCarlo(workers[w].rng, futures[i].n)
       IN  /\ futures' = [futures EXCEPT
                            ![i].state = IF r.ok THEN "finished" ELSE "failed",
                            ![i].val = r.val]
           /\ workers' = [workers EXCEPT ![w].task = 0, ![w].rng = r.rng]
           /\ calls' = [calls EXCEPT ![CallOf(i)].ret = Ret(r)]
           /\ completed' = Append(completed, i)
    /\ UNCHANGED <<entry, n, num_limit, startMethod, pc, outcome, result,
                   parentRng, poolCreated, n_range, submitError, broken>>

\* the task of worker w raises (MemoryError allocating the arrays)
FailTask(w) ==
    /\ workers[w].alive
    /\ workers[w].task # 0
    /\ LET i == workers[w].task
       IN  /\ futures' = [futures EXCEPT ![i].state = "failed"]
           /\ workers' = [workers EXCEPT ![w].task = 0]
           /\ calls' = [calls EXCEPT ![CallOf(i)].ret = [st |-> "raised", val |-> NaN]]
           /\ completed' = Append(completed, i)
    /\ UNCHANGED <<entry, n, num_limit, startMethod, pc, outcome, result,
                   parentRng, poolCreated, n_range, submitError, broken>>

RECURSIVE Pending(_, _)
Pending(fs, i) ==
    IF i > Len(fs) THEN <<>>
    ELSE (IF IsDone(fs[i]) THEN <<>> ELSE <<i>>) \o Pending(fs, i + 1)

\* worker process w dies: BrokenProcessPool fails every unfinished future
WorkerCrash(w) ==
    /\ workers[w].alive
    /\ workers[w].task # 0
    /\ ~broken
    /\ broken' = TRUE
    /\ futures' = [i \in 1..Len(futures) |->
                     IF IsDone(futures[i]) THEN futures[i]
                     ELSE [futures[i] EXCEPT !.state = "failed"]]
    /\ workers' = [v \in 1..NumWorkers |-> [workers[v] EXCEPT !.alive = FALSE, !.task = 0]]
    /\ completed' = completed \o Pending(futures, 1)
    /\ calls' = [k \in 1..Len(calls) |->
                   IF calls[k].ret.st = "running"
                   THEN [calls[k] EXCEPT !.ret = [st |-> "raised", val |-> NaN]]
                   ELSE calls[k]]
    /\ UNCHANGED <<entry, n, num_limit, startMethod, pc, outcome, result,
                   parentRng, poolCreated, n_range, submitError>>

\* ---- the join -----------------------------------------------------------
\* shutdown(wait=True), leaving the with block, and the average
Collect ==
    /\ pc = "pool"
    /\ submitError \/ Len(futures) >= n_range
    /\ AllCompleted
    /\ pc' = "done"
    /\ IF submitError \/ AnyRaises(futures)
       THEN /\ outcome' = "error"
            /\ UNCHANGED result
       ELSE /\ outcome' = "value"
            /\ result' = Average(Results(futures))
    /\ UNCHANGED <<entry, n, num_limit, startMethod, parentRng, poolCreated,
                   n_range, submitError, broken, workers, futures, calls,
                   completed>>

Next ==
    \/ EstimateCall
    \/ RunDirect
    \/ OpenPool
    \/ Submit
    \/ SubmitFail
    \/ \E w \in 1..NumWorkers : StartTask(w)
    \/ \E w \in 1..NumWorkers : FinishTask(w)
    \/ \E w \in 1..NumWorkers : FailTask(w)
    \/ \E w \in 1..NumWorkers : WorkerCrash(w)
    \/ Collect

Spec == Init /\ [][Next]_vars

\* ---- properties ---------------------------------------------------------
Chunked == entry = "monte_carlo" /\ n > num_limit

Returned == pc = "done" /\ outcome = "value"

FutureIdx == 1..Len(futures)

\* the number of random points generated by the invocations that returned
RECURSIVE Generated(_)
Generated(cs) ==
    IF cs = <<>> THEN 0
    ELSE (IF cs[1].ret.st = "returned" THEN cs[1].n ELSE 0) + Generated(Tail(cs))

C2_DirectDelegation ==
    (entry = "monte_carlo" /\ n <= num_limit) =>
        /\ ~poolCreated
        /\ futures = <<>>
        /\ \A w \in 1..NumWorkers : ~workers[w].alive
        /\ Len(calls) <= 1
        /\ pc = "done" =>
              /\ Len(calls) = 1
              /\ calls[1].proc = 0
              /\ calls[1].n = n
              /\ (outcome = "value") = (calls[1].ret.st = "returned")
              /\ outcome = "value" => result = calls[1].ret.val

C2_Witness ==
    /\ entry = "monte_carlo"
    /\ n = num_limit
    /\ Returned
    /\ Len(calls) = 1
    /\ result = calls[1].ret.val

\* C3: for num_limit >= 1 and n >= 0, no invocation of _monte_carlo made by
\* monte_carlo, on either path, is asked for more than num_limit samples.
C3_ChunkBound ==
    (entry = "monte_carlo" /\ num_limit >= 1 /\ n >= 0) =>
        \A k \in 1..Len(calls) : calls[k].n <= num_limit

C3_Witness ==
    /\ Chunked
    /\ pc = "done"
    /\ num_limit >= 1
    /\ Len(calls) >= 2
    /\ \A k \in 1..Len(calls) : calls[k].n = num_limit /\ calls[k].n < n

\* C4: on the chunked path the call has returned a value only when every
\* dispatched task has completed; the value is computed from all of them.
C4_JoinBeforeReturn ==
    (Chunked /\ outcome = "value") =>
        /\ \A i \in FutureIdx : futures[i].state = "finished"
        /\ \A w \in 1..NumWorkers : workers[w].task = 0
        /\ \A k \in 1..Len(calls) : calls[k].ret.st # "running"
        /\ Len(completed) = Len(futures)
        /\ Len(Results(futures)) = Len(futures)

C4_Witness ==
    /\ Chunked /\ Returned
    /\ Len(futures) >= 3
    /\ completed[1] # 1
    /\ \A i \in FutureIdx : futures[i].state = "finished"

\* the sum of the estimates of the futures of the index set S
RECURSIVE SetSum(_)
SetSum(S) ==
    IF S = {} THEN <<0, 1>>
    ELSE LET i == CHOOSE j \in S : TRUE
         IN  RatAdd(futures[i].val, SetSum(S \ {i}))

\* C5: on the chunked path, when every task succeeds, the returned value is
\* the arithmetic mean of exactly the n // num_limit per-chunk estimates.
C5_MeanOfChunks ==
    (Chunked /\ num_limit >= 1 /\ Returned) =>
        LET k == n \div num_limit
            t == SetSum(FutureIdx)
        IN  /\ Len(futures) = k
            /\ result[2] > 0
            /\ result[1] * t[2] * k = t[1] * result[2]

C5_Witness ==
    /\ Chunked /\ Returned
    /\ Len(futures) >= 2
    /\ \E i, j \in FutureIdx : futures[i].val # futures[j].val
    /\ result # NaN

\* C6: if a chunk task fails, or cannot be submitted, the call ends in an
\* error and returns no estimate; no task is run or submitted a second time.
C6_FailurePropagates ==
    /\ (pc = "done" /\ (submitError \/ \E i \in FutureIdx : futures[i].state = "failed"))
          => outcome = "error"
    /\ \A i \in FutureIdx :
          /\ futures[i].runs <= 1
          /\ Cardinality({k \in 1..Len(calls) : calls[k].fut = i}) <= 1
    /\ poolCreated => Len(futures) <= (IF n_range > 0 THEN n_range ELSE 0)

C6_Witness ==
    /\ pc = "done"
    /\ outcome = "error"
    /\ \E i \in FutureIdx : futures[i].state = "failed" /\ futures[i].runs = 1
    /\ \E i \in FutureIdx : futures[i].state = "finished"

\* C7: a call with n <= 0, or with num_limit <= 0, ends in an error: it
\* returns no value and dispatches no task.
C7_InvalidArgument ==
    (pc = "done" /\ (n <= 0 \/ (entry = "monte_carlo" /\ num_limit <= 0))) =>
        /\ outcome = "error"
        /\ futures = <<>>

\* the number of points of the invocation c that lie inside the circle
InsideCount(c) ==
    Cardinality({i \in 1..c.n :
        LET x == Output(c.rng.seed, c.rng.pos + i - 1)
            y == Output(c.rng.seed, c.rng.pos + c.n + i - 1)
        IN  x * x + y * y <= Grid * Grid})

\* C8: for n >= 1, _monte_carlo(n) returns 4 * count / n, a value of
\* [0, 4], where count of 0..n is the number of points with x^2 + y^2 <= 1.
C8_EstimateRange ==
    \A k \in 1..Len(calls) :
        LET c == calls[k]
        IN  /\ (c.n >= 1 /\ c.proc = 0) => c.ret.st = "returned"
            /\ (c.n >= 1 /\ c.ret.st = "returned") =>
                  /\ c.ret.val[2] > 0
                  /\ 0 <= c.ret.val[1]
                  /\ c.ret.val[1] <= 4 * c.ret.val[2]
                  /\ InsideCount(c) \in 0..c.n
                  /\ c.ret.val[1] * c.n = 4 * InsideCount(c) * c.ret.val[2]

C8_Witness ==
    \E k \in 1..Len(calls) :
        /\ calls[k].n >= 2
        /\ calls[k].ret.st = "returned"
        /\ InsideCount(calls[k]) \in 1..(calls[k].n - 1)

\* the bag of the estimates, collected in the order the tasks completed
RECURSIVE CompletedBag(_)
CompletedBag(order) ==
    IF order = <<>> THEN EmptyBag
    ELSE SetToBag({futures[order[1]].val}) (+) CompletedBag(Tail(order))

RECURSIVE BagSum(_, _)
BagSum(B, S) ==
    IF S = {} THEN <<0, 1>>
    ELSE LET e == CHOOSE v \in S : TRUE
         IN  RatAdd(Rat(e[1] * CopiesIn(e, B), e[2]), BagSum(B, S \ {e}))

BagMean(B) ==
    LET t == BagSum(B, BagToSet(B)) IN Rat(t[1], t[2] * BagCardinality(B))

C10_IndependentSources ==
    \A j, k \in 1..Len(calls) :
        (j < k /\ calls[j].fut # 0 /\ calls[k].fut # 0) =>
            \/ calls[j].rng.seed # calls[k].rng.seed
            \/ calls[j].rng.pos + 2 * calls[j].n <= calls[k].rng.pos
            \/ calls[k].rng.pos + 2 * calls[k].n <= calls[j].rng.pos

====
